---- MODULE Spec2Model ----
(***************************************************************************)
(* Resumable Sentinel-5P extraction (get_aqi_data.py): the time-series     *)
(* fetcher with its single retry, the monthly outer merge, the resume      *)
(* set-up that infers a checkpoint from the last row of the output file,   *)
(* and the location / year / month main loop that appends one unit at a    *)
(* time.                                                                   *)
(*                                                                         *)
(* Scale: the calendar has MonthsPerYear months per year (12 in the        *)
(* script), the catalogs are cut to their first NumLocations locations and *)
(* NumProducts products.  A date 'YYYY-MM-DD' is the tuple <<y, m, d>>; a  *)
(* millisecond timestamp is a date plus the part of the day, which the     *)
(* conversion to a date drops.  The process can be killed between any two  *)
(* steps; an append that is cut short leaves a whole number of rows (the   *)
(* rows of one unit reach the file in one buffered write).                 *)
(***************************************************************************)
EXTENDS Integers, Sequences, FiniteSets, TLC

----------------------------------------------------------------------------
(* Bounds of the model *)

NumLocations == 2
NumProducts == 2
MonthsPerYear == 2
FirstToday == 1
MaxToday == 2
MaxRuns == 2
MaxFaults == 1
MaxRows == 2

----------------------------------------------------------------------------
(* 1. Study area and parameters *)

locations ==
    << "Anand Vihar, Delhi", "RK Puram, Delhi", "Punjabi Bagh, Delhi",
       "Mandir Marg, Delhi", "Vikas Sadan, Gurugram", "Sector 51, Gurugram",
       "Sector 62, Noida", "Sector 125, Noida" >>

start_year == 2020

s5p_products ==
    << [gas |-> "NO2", band |-> "tropospheric_NO2_column_number_density"],
       [gas |-> "SO2", band |-> "SO2_column_number_density"],
       [gas |-> "CO", band |-> "CO_column_number_density"],
       [gas |-> "O3", band |-> "O3_column_number_density"],
       [gas |-> "Aerosol_Index", band |-> "absorbing_aerosol_index"] >>

\* The locations and products the model runs over, in catalog order.
Locs == SubSeq(locations, 1, NumLocations)
Prods == SubSeq(s5p_products, 1, NumProducts)

product_names == [i \in 1..Len(Prods) |-> Prods[i].gas]
Gases == {product_names[i] : i \in 1..Len(product_names)}

\* Position of a location in the catalog (0 when it is not in it).
LocIndex(name) ==
    IF \E i \in 1..Len(locations) : locations[i] = name
    THEN CHOOSE i \in 1..Len(locations) : locations[i] = name
    ELSE 0

----------------------------------------------------------------------------
(* Cells of a remote table and of a data frame *)

None == [kind |-> "None", date |-> <<0, 0, 0>>, part |-> 0, v |-> 0]
Num(n) == [kind |-> "num", date |-> <<0, 0, 0>>, part |-> 0, v |-> n]
Str == [kind |-> "str", date |-> <<0, 0, 0>>, part |-> 0, v |-> 0]
\* A timestamp in milliseconds: a calendar day and the part of that day.
Ms(y, m, d, part) == [kind |-> "ms", date |-> <<y, m, d>>, part |-> part, v |-> 0]

\* The date of an empty date field.
NaT == <<0, 0, 0>>

\* datetime.fromtimestamp(ms / 1000).strftime('%Y-%m-%d'): the day, without
\* the part of the day.
fromtimestamp(cell) == cell.date

\* A response of getRegion(...).getInfo(): it raises ee.EEException or
\* returns a table, a list whose first element is the header.
EEException == [raises |-> TRUE, table |-> <<>>]
Returns(table) == [raises |-> FALSE, table |-> table]

----------------------------------------------------------------------------
(* 2. get_s5p_time_series *)

\* list.index: the first position of x, 0 standing for ValueError.
index(header, x) ==
    IF \E i \in 1..Len(header) : header[i] = x
    THEN CHOOSE i \in 1..Len(header) :
            header[i] = x /\ \A j \in 1..(i - 1) : header[j] # x
    ELSE 0

\* Mutant of parse_rows: a row whose value is None is skipped as well.
RECURSIVE parse_rows_skip_null(_, _, _)
parse_rows_skip_null(data_rows, date_index, value_index) ==
    IF data_rows = <<>> THEN <<>>
    ELSE LET row == Head(data_rows)
             rest == parse_rows_skip_null(Tail(data_rows), date_index,
                                          value_index)
         IN  IF date_index > Len(row) THEN rest
             ELSE IF row[date_index].kind = "None" THEN rest
             ELSE IF row[date_index].kind # "ms" THEN rest
             ELSE IF value_index > Len(row) THEN rest
             ELSE IF row[value_index].kind = "None" THEN rest
             ELSE << [date |-> fromtimestamp(row[date_index]),
                      value |-> row[value_index]] >> \o rest

\* The row loop of the first attempt.  A row too short for either index, or
\* whose timestamp is not a number, raises inside the inner try and is
\* skipped; a None timestamp is skipped; the value is taken as it is.
RECURSIVE parse_rows(_, _, _)
parse_rows(data_rows, date_index, value_index) ==
    IF data_rows = <<>> THEN <<>>
    ELSE LET row == Head(data_rows)
             rest == parse_rows(Tail(data_rows), date_index, value_index)
         IN  IF date_index > Len(row) THEN rest
             ELSE IF row[date_index].kind = "None" THEN rest
             ELSE IF row[date_index].kind # "ms" THEN rest
             ELSE IF value_index > Len(row) THEN rest
             ELSE << [date |-> fromtimestamp(row[date_index]),
                      value |-> row[value_index]] >> \o rest

\* Mutant of parse_rows_retry: the try stands around the loop, so the first
\* bad row ends it.
RECURSIVE parse_rows_retry_abort(_, _, _)
parse_rows_retry_abort(data_rows, date_index, value_index) ==
    IF data_rows = <<>> THEN <<>>
    ELSE LET row == Head(data_rows)
             rest == parse_rows_retry_abort(Tail(data_rows), date_index,
                                            value_index)
         IN  IF date_index > Len(row) THEN <<>>
             ELSE IF row[date_index].kind = "None" THEN rest
             ELSE IF row[date_index].kind # "ms" THEN <<>>
             ELSE IF value_index > Len(row) THEN <<>>
             ELSE << [date |-> fromtimestamp(row[date_index]),
                      value |-> row[value_index]] >> \o rest

\* The row loop of the retry, the same loop written a second time.
RECURSIVE parse_rows_retry(_, _, _)
parse_rows_retry(data_rows, date_index, value_index) ==
    IF data_rows = <<>> THEN <<>>
    ELSE LET row == Head(data_rows)
             rest == parse_rows_retry(Tail(data_rows), date_index, value_index)
         IN  IF date_index > Len(row) THEN rest
             ELSE IF row[date_index].kind = "None" THEN rest
             ELSE IF row[date_index].kind # "ms" THEN rest
             ELSE IF value_index > Len(row) THEN rest
             ELSE << [date |-> fromtimestamp(row[date_index]),
                      value |-> row[value_index]] >> \o rest

\* What a call gives back: the list it returns, or an exception that leaves
\* the function; queries counts the remote queries it issued.
Return(data, n) == [raised |-> FALSE, data |-> data, queries |-> n]
Raise(n) == [raised |-> TRUE, data |-> <<>>, queries |-> n]

\* Mutant of first_attempt: a response without data rows is queried again.
first_attempt_requery(band, time_series) ==
    IF Len(time_series) < 2 THEN Return(<<>>, 2)
    ELSE LET header == time_series[1]
             data_rows == Tail(time_series)
             date_index == index(header, "time")
             value_index == index(header, band)
         IN  IF date_index = 0 \/ value_index = 0
             THEN Return(<<>>, 1)
             ELSE Return(parse_rows(data_rows, date_index, value_index), 1)

\* The body of the outer try once the first query has returned.
first_attempt(band, time_series) ==
    IF Len(time_series) < 2 THEN Return(<<>>, 1)
    ELSE LET header == time_series[1]
             data_rows == Tail(time_series)
             date_index == index(header, "time")
             value_index == index(header, band)
         IN  IF date_index = 0 \/ value_index = 0
             THEN Return(<<>>, 1)   \* except ValueError: return []
             ELSE Return(parse_rows(data_rows, date_index, value_index), 1)

\* The except ee.EEException branch: one more query.  Its header look-up
\* stands in no try of its own and the enclosing except names only
\* ee.EEException, so a ValueError leaves the function.
retry_attempt(band, response) ==
    IF response.raises THEN Return(<<>>, 2)
    ELSE LET time_series == response.table
         IN  IF Len(time_series) < 2 THEN Return(<<>>, 2)
             ELSE LET header == time_series[1]
                      data_rows == Tail(time_series)
                      date_index == index(header, "time")
                      value_index == index(header, band)
                  IN  IF date_index = 0 \/ value_index = 0
                      THEN Raise(2)
                      ELSE Return(parse_rows_retry(data_rows, date_index,
                                                   value_index), 2)

\* What a call does to the outside: collection.getRegion(geometry=point,
\* scale=1000).getInfo() on the collection selected by the band, and
\* time.sleep.
getInfo(band) == [op |-> "getRegion", band |-> band, arg |-> 1000]
sleep(secs) == [op |-> "sleep", band |-> "", arg |-> secs]

\* The remote queries and waits of a call, in order: the query; when it
\* raises ee.EEException, time.sleep(5) and the query once more, built from
\* the same collection and point.
remote_calls(band, first) ==
    IF first.raises
    THEN <<getInfo(band), sleep(5), getInfo(band)>>
    ELSE <<getInfo(band)>>

\* first is the response to the query, second the response to its retry
\* (consulted only when the first raised).
get_s5p_time_series(band, first, second) ==
    IF first.raises
    THEN retry_attempt(band, second)
    ELSE first_attempt(band, first.table)

----------------------------------------------------------------------------
(* Data frames: a frame is a sequence of rows, each a date and one cell per *)
(* product column (None where pandas holds NaN or None).                    *)

NoVals == [g \in Gases |-> None]

\* pd.DataFrame(ts_data).rename(columns={'value': gas})
temp_df(ts_data, gas) ==
    [i \in 1..Len(ts_data) |->
        [date |-> ts_data[i].date,
         vals |-> [NoVals EXCEPT ![gas] = ts_data[i].value]]]

\* 'YYYY-MM-DD' strings compare as the dates they write.
DateLT(a, b) ==
    \/ a[1] < b[1]
    \/ a[1] = b[1] /\ a[2] < b[2]
    \/ a[1] = b[1] /\ a[2] = b[2] /\ a[3] < b[3]

RECURSIVE SortedDates(_)
SortedDates(S) ==
    IF S = {} THEN <<>>
    ELSE LET m == CHOOSE x \in S : \A y \in S : ~DateLT(y, x)
         IN  <<m>> \o SortedDates(S \ {m})

DatesOf(df) == {df[i].date : i \in 1..Len(df)}
RowsOn(df, d) == SelectSeq(df, LAMBDA r : r.date = d)

\* The rows one key contributes to an outer join: every pairing of the left
\* rows with the right rows of that key, or the rows of the one side that
\* has the key, the other side's columns left empty.
JoinGroup(left, right, gas, d) ==
    LET L == RowsOn(left, d)
        R == RowsOn(right, d)
    IN  IF R = <<>> THEN L
        ELSE IF L = <<>> THEN R
        ELSE [n \in 1..(Len(L) * Len(R)) |->
                LET i == ((n - 1) \div Len(R)) + 1
                    j == ((n - 1) % Len(R)) + 1
                IN  [L[i] EXCEPT !.vals[gas] = R[j].vals[gas]]]

RECURSIVE JoinKeys(_, _, _, _)
JoinKeys(keys, left, right, gas) ==
    IF keys = <<>> THEN <<>>
    ELSE JoinGroup(left, right, gas, Head(keys))
            \o JoinKeys(Tail(keys), left, right, gas)

\* Mutant of merge: an inner join, the keys both sides have.
merge_inner(left, right, gas) ==
    JoinKeys(SortedDates(DatesOf(left) \cap DatesOf(right)), left, right, gas)

\* pd.merge(left, right, on='date', how='outer'): the union of the keys,
\* sorted.
merge(left, right, gas) ==
    JoinKeys(SortedDates(DatesOf(left) \cup DatesOf(right)), left, right, gas)

\* Mutant of fold_product: an empty result leaves a placeholder row in a
\* frame that has none.
fold_product_pad(df, ts_data, gas) ==
    IF ts_data = <<>>
    THEN IF df = <<>> THEN << [date |-> NaT, vals |-> NoVals] >> ELSE df
    ELSE IF df = <<>> THEN temp_df(ts_data, gas)
    ELSE merge(df, temp_df(ts_data, gas), gas)

\* One pass of the product loop over the frame of the unit.
fold_product(df, ts_data, gas) ==
    IF ts_data = <<>> THEN df
    ELSE IF df = <<>> THEN temp_df(ts_data, gas)
    ELSE merge(df, temp_df(ts_data, gas), gas)

\* drop_duplicates(subset=['date']): the first row of each date, in place.
RECURSIVE drop_duplicates(_)
drop_duplicates(df) ==
    IF df = <<>> THEN <<>>
    ELSE LET init == drop_duplicates(SubSeq(df, 1, Len(df) - 1))
             last == df[Len(df)]
         IN  IF \E i \in 1..(Len(df) - 1) : df[i].date = last.date
             THEN init
             ELSE Append(init, last)

\* The rows written for a unit: duplicates dropped, the location attached,
\* the columns put in header order.
unit_rows(df, loc_name) ==
    LET d == drop_duplicates(df)
    IN  [i \in 1..Len(d) |->
            [date |-> d[i].date, vals |-> d[i].vals, location |-> loc_name]]

----------------------------------------------------------------------------
(* The output file *)

\* A file: whether it exists, whether it starts with the header row, the
\* bytes of foreign content in it (garbled: such content does not parse),
\* and the data rows that follow.
NoFile == [exists |-> FALSE, header |-> FALSE, garbled |-> FALSE,
           junk |-> 0, rows |-> <<>>]
HeaderOnly == [exists |-> TRUE, header |-> TRUE, garbled |-> FALSE,
               junk |-> 0, rows |-> <<>>]
ZeroLength == [NoFile EXCEPT !.exists = TRUE]
Garbled(n) == [exists |-> TRUE, header |-> FALSE, garbled |-> TRUE,
               junk |-> n, rows |-> <<>>]

\* Bytes of the names the file writes.
ByteLen(s) ==
    CASE s = "NO2" -> 3 [] s = "SO2" -> 3 [] s = "CO" -> 2 [] s = "O3" -> 2
      [] s = "Aerosol_Index" -> 13
      [] s = "Anand Vihar, Delhi" -> 18 [] s = "RK Puram, Delhi" -> 15
      [] s = "Punjabi Bagh, Delhi" -> 19 [] s = "Mandir Marg, Delhi" -> 18
      [] s = "Vikas Sadan, Gurugram" -> 21 [] s = "Sector 51, Gurugram" -> 19
      [] s = "Sector 62, Noida" -> 16 [] s = "Sector 125, Noida" -> 17
      [] OTHER -> 0

RECURSIVE SumOver(_, _)
SumOver(f, S) ==
    IF S = {} THEN 0
    ELSE LET x == CHOOSE y \in S : TRUE IN f[x] + SumOver(f, S \ {x})

\* 'date', the product names, 'location', commas between, a line end.
HeaderBytes ==
    4 + SumOver([g \in Gases |-> 1 + ByteLen(g)], Gases) + 1 + 8 + 1

\* A date, one field per product (empty for None, a short decimal
\* otherwise), the quoted location, a line end.
RowBytes(r) ==
    10 + SumOver([g \in Gases |-> 1 + (IF r.vals[g].kind = "None" THEN 0 ELSE 3)],
                 Gases)
       + 1 + ByteLen(r.location) + 2 + 1

getsize(f) ==
    f.junk + (IF f.header THEN HeaderBytes ELSE 0)
           + SumOver([i \in 1..Len(f.rows) |-> RowBytes(f.rows[i])],
                     1..Len(f.rows))

\* The try block of the resume set-up up to the last row: pd.read_csv, then
\* the look-up of 'date' and 'location'.  Foreign content does not parse;
\* without the header row the first data row is taken for the header, so the
\* frame is one row short and has no 'date' column.
read_csv(f) ==
    IF f.garbled THEN [raises |-> TRUE, df |-> <<>>]
    ELSE IF f.header THEN [raises |-> FALSE, df |-> f.rows]
    ELSE IF Len(f.rows) <= 1 THEN [raises |-> FALSE, df |-> <<>>]
    ELSE [raises |-> TRUE, df |-> <<>>]

\* Mutant of append_rows: the file is opened for writing, not for appending.
write_rows(f, rows) ==
    [exists |-> TRUE, header |-> FALSE, garbled |-> FALSE, junk |-> 0,
     rows |-> rows]

\* to_csv(mode='a', header=False)
append_rows(f, rows) == [f EXCEPT !.exists = TRUE, !.rows = f.rows \o rows]

----------------------------------------------------------------------------
(* The remote service *)

MonthIdx(year, month) == (year - start_year) * MonthsPerYear + (month - 1)

\* What the service holds for a location, a month and a product: (timestamp,
\* value) pairs in time order.  The first location has one observation in
\* all; the others have months with nothing, months with two passes on one
\* day, masked values (alone in their month, on a day every product masks,
\* before and after a value of the same day) and months where each product
\* has a date the other lacks.
Observations(li, year, month, pi) ==
    LET t == MonthIdx(year, month)
        shape == (2 * li + t) % 3
    IN  IF li = 1
        THEN IF t = 1 /\ pi = 1
             THEN << <<Ms(year, month, 1, 0), Num(1)>> >>
             ELSE <<>>
        ELSE IF shape = 0 \/ pi > 2 THEN <<>>
        ELSE IF shape = 1
        THEN IF pi = 1
             THEN << <<Ms(year, month, 1, 0), Num(1)>>,
                     <<Ms(year, month, 1, 1), None>>,
                     <<Ms(year, month, 2, 0), None>> >>
             ELSE << <<Ms(year, month, 2, 1), None>> >>
        ELSE IF pi = 1
             THEN << <<Ms(year, month, 1, 0), Num(4)>>,
                     <<Ms(year, month, 2, 0), Num(7)>> >>
             ELSE << <<Ms(year, month, 1, 1), None>>,
                     <<Ms(year, month, 1, 2), Num(5)>>,
                     <<Ms(year, month, 3, 0), Num(6)>> >>

\* The table getRegion gives for a query: the header, then one row per image.
GoodHeader(band) == <<"id", "longitude", "latitude", "time", band>>
RegionRow(o) == <<Str, Num(0), Num(0), o[1], o[2]>>

getRegion(li, year, month, pi) ==
    LET obs == Observations(li, year, month, pi)
    IN  <<GoodHeader(Prods[pi].band)>> \o [i \in 1..Len(obs) |-> RegionRow(obs[i])]

\* A table whose header lacks the band column.
BadHeaderTable(li, year, month, pi) ==
    LET tbl == getRegion(li, year, month, pi)
    IN  << <<"id", "longitude", "latitude", "time">> >> \o Tail(tbl)

----------------------------------------------------------------------------
(* State *)

VARIABLES
    today,                  \* the wall clock, a month index from 2020-01
    file,                   \* the output file
    pc,                     \* where the process stands
    current_time,           \* datetime.now() taken when the script starts
    resume_point,           \* the checkpoint, or NoResume
    processed_locations,    \* locations to skip entirely
    cursor,                 \* loop variables: location index, year, month
    gas,                    \* index of the next product of the unit
    location_one_month_df,  \* the frame of the unit
    fetched,                \* what each fetch of the unit returned, in order
    runs,                   \* script starts so far
    faults,                 \* fetches that did not give the service's data
    executed,               \* units this run has begun, in order
    completed,              \* units some run has carried through
    start_file,             \* the file as the last start found it
    event,                  \* the one kill or truncation of a controlled run
    call,                   \* a call of get_s5p_time_series on its own
    ret                     \* what that call gave back

vars ==
    << today, file, pc, current_time, resume_point, processed_locations,
       cursor, gas, location_one_month_df, fetched, runs, faults, executed,
       completed, start_file, event, call, ret >>

procVars ==
    << current_time, resume_point, processed_locations, cursor, gas,
       location_one_month_df, fetched, executed, start_file >>

SizeThreshold == 50

NoResume == [location |-> "None", year |-> 0, month |-> 0]
NoEvent == [kind |-> "none", unit |-> <<0, 0, 0>>, at |-> 0, before |-> <<>>]
NoCall ==
    [band |-> "", first |-> EEException, second |-> EEException, log |-> <<>>]
NoRet == [raised |-> FALSE, data |-> <<>>, queries |-> 0]

Clock(t) ==
    [year |-> start_year + (t \div MonthsPerYear),
     month |-> (t % MonthsPerYear) + 1]

FirstCursor == [li |-> 1, year |-> start_year, month |-> 1]

Stopped == {"idle", "DONE", "killed", "crashed", "aborted"}
Running == {"loop", "fetch"}

\* The process state of a script that is not running.
ProcInit ==
    /\ current_time = Clock(FirstToday)
    /\ resume_point = NoResume
    /\ processed_locations = {}
    /\ cursor = FirstCursor
    /\ gas = 1
    /\ location_one_month_df = <<>>
    /\ fetched = <<>>
    /\ executed = <<>>
    /\ start_file = NoFile

ProcReset ==
    /\ current_time' = Clock(FirstToday)
    /\ resume_point' = NoResume
    /\ processed_locations' = {}
    /\ cursor' = FirstCursor
    /\ gas' = 1
    /\ location_one_month_df' = <<>>
    /\ fetched' = <<>>
    /\ executed' = <<>>
    /\ start_file' = NoFile

Init ==
    /\ today = FirstToday
    /\ file = NoFile
    /\ pc = "idle"
    /\ ProcInit
    /\ runs = 0
    /\ faults = 0
    /\ completed = {}
    /\ event = NoEvent
    /\ call = NoCall
    /\ ret = NoRet

----------------------------------------------------------------------------
(* 3. Set-up for resuming *)

\* Mutant of checkpoint: the day of the date is taken for its month.
checkpoint_by_day(last_entry) ==
    [location |-> last_entry.location,
     year |-> last_entry.date[1],
     month |-> last_entry.date[3]]

\* pd.to_datetime(last_entry['date']) and the checkpoint built from it.  An
\* empty date field reads as NaT, whose year and month are nan: NaT is
\* <<0, 0, 0>> here, and 0 compares with a year or a month as nan does
\* (neither less nor equal).
checkpoint(last_entry) ==
    [location |-> last_entry.location,
     year |-> last_entry.date[1],
     month |-> last_entry.date[2]]

\* Mutant of other_locations: the location of the last row is not left out.
all_locations(df, loc_name) == {df[i].location : i \in 1..Len(df)}

\* df_existing[df_existing['location'] != resume_point['location']]
\*     ['location'].unique()
other_locations(df, loc_name) ==
    {df[i].location : i \in {j \in 1..Len(df) : df[j].location # loc_name}}

\* The except branch of the set-up: os.remove, exit() if it fails, else
\* file_exists = False, on which the header is written to a new file.
\* removable says whether os.remove succeeds.
start_from_scratch(removable) ==
    IF removable
    THEN file' = HeaderOnly /\ pc' = "loop"
    ELSE file' = file /\ pc' = "aborted"

\* The print of the resume point formats the month with ':02d', which
\* raises for the nan month of a date that is NaT.
report_raises(point) == point.month = NaT[2]

\* The whole set-up, from os.path.exists to the header of a new file.  An
\* exception before the checkpoint is assigned leaves resume_point and
\* processed_locations as initialised; one raised by the print leaves them
\* assigned, and the except branch does not reset them.
Setup(removable) ==
    LET file_exists == file.exists
        parsed == read_csv(file)
    IN  IF file_exists /\ getsize(file) > SizeThreshold
        THEN IF parsed.raises
             THEN /\ resume_point' = NoResume
                  /\ processed_locations' = {}
                  /\ start_from_scratch(removable)
             ELSE IF parsed.df # <<>>
             THEN LET last_entry == parsed.df[Len(parsed.df)]
                  IN  /\ resume_point' = checkpoint(last_entry)
                      /\ processed_locations' =
                            other_locations(parsed.df, last_entry.location)
                      /\ IF report_raises(checkpoint(last_entry))
                         THEN start_from_scratch(removable)
                         ELSE file' = file /\ pc' = "loop"
             ELSE /\ resume_point' = NoResume
                  /\ processed_locations' = {}
                  /\ file' = file
                  /\ pc' = "loop"
        ELSE /\ resume_point' = NoResume
             /\ processed_locations' = {}
             /\ file' = IF file_exists THEN file ELSE HeaderOnly
             /\ pc' = "loop"

Startup ==
    /\ pc \in Stopped
    /\ runs < MaxRuns
    /\ runs' = runs + 1
    /\ current_time' = Clock(today)
    /\ start_file' = file
    /\ \E removable \in BOOLEAN : Setup(removable)
    /\ cursor' = FirstCursor
    /\ gas' = 1
    /\ location_one_month_df' = <<>>
    /\ fetched' = <<>>
    /\ executed' = <<>>
    /\ UNCHANGED <<today, faults, completed, event, call, ret>>

----------------------------------------------------------------------------
(* 4. Main processing loop *)

end_year == current_time.year

\* Mutant of last_month: the current year is not capped at the current month.
last_month_uncapped(year) == MonthsPerYear

\* last_month = 12 if year < current_time.year else current_time.month
last_month(year) ==
    IF year < current_time.year THEN MonthsPerYear ELSE current_time.month

\* The loop variables after one more turn of the month loop: the next month,
\* else the first month of the next year, else the next location.
next_location(c) == [li |-> c.li + 1, year |-> start_year, month |-> 1]

next_month(c) ==
    IF c.month < last_month(c.year)
    THEN [c EXCEPT !.month = c.month + 1]
    ELSE IF c.year < end_year
    THEN [c EXCEPT !.year = c.year + 1, !.month = 1]
    ELSE next_location(c)

\* Mutant of skip_month: the month of the checkpoint is not skipped.
skip_month_before(loc_name, year, month) ==
    /\ resume_point # NoResume
    /\ loc_name = resume_point.location
    /\ \/ year < resume_point.year
       \/ year = resume_point.year /\ month < resume_point.month

\* if resume_point and loc_name == resume_point['location']: if year < ... 
skip_month(loc_name, year, month) ==
    /\ resume_point # NoResume
    /\ loc_name = resume_point.location
    /\ \/ year < resume_point.year
       \/ year = resume_point.year /\ month <= resume_point.month

InLoop == pc = "loop" /\ cursor.li <= Len(Locs)
Unit(c) == <<c.li, c.year, c.month>>

\* if loc_name in processed_locations: continue
SkipLocation ==
    /\ InLoop
    /\ Locs[cursor.li] \in processed_locations
    /\ cursor' = next_location(cursor)
    /\ UNCHANGED <<today, file, pc, current_time, resume_point,
                   processed_locations, gas, location_one_month_df, fetched, runs,
                   faults, executed, completed, start_file, event, call, ret>>

\* The continue of the skip rule.
SkipMonth ==
    /\ InLoop
    /\ Locs[cursor.li] \notin processed_locations
    /\ skip_month(Locs[cursor.li], cursor.year, cursor.month)
    /\ cursor' = next_month(cursor)
    /\ UNCHANGED <<today, file, pc, current_time, resume_point,
                   processed_locations, gas, location_one_month_df, fetched, runs,
                   faults, executed, completed, start_file, event, call, ret>>

\* A unit that is not skipped: its date range is set and its frame is empty.
BeginUnit ==
    /\ InLoop
    /\ Locs[cursor.li] \notin processed_locations
    /\ ~skip_month(Locs[cursor.li], cursor.year, cursor.month)
    /\ pc' = "fetch"
    /\ gas' = 1
    /\ location_one_month_df' = <<>>
    /\ fetched' = <<>>
    /\ executed' = Append(executed, Unit(cursor))
    /\ UNCHANGED <<today, file, current_time, resume_point,
                   processed_locations, cursor, runs, faults, completed,
                   start_file, event, call, ret>>

\* One turn of the product loop, given what the query and its retry answer.
\* An exception that leaves get_s5p_time_series ends the script.
Fetch(first, second) ==
    LET r == get_s5p_time_series(Prods[gas].band, first, second)
    IN  IF r.raised
        THEN /\ pc' = "crashed"
             /\ ProcReset
        ELSE /\ location_one_month_df' =
                    fold_product(location_one_month_df, r.data, Prods[gas].gas)
             /\ fetched' = Append(fetched, r.data)
             /\ gas' = gas + 1
             /\ UNCHANGED <<pc, current_time, resume_point,
                            processed_locations, cursor, executed, start_file>>

ServiceTable == getRegion(cursor.li, cursor.year, cursor.month, gas)

\* The query answers at once with the service's table.
FetchOK ==
    /\ pc = "fetch"
    /\ gas <= Len(Prods)
    /\ Fetch(Returns(ServiceTable), EEException)
    /\ UNCHANGED <<today, file, runs, faults, completed, event, call, ret>>

\* The query raises, or the answer lacks a header column.  faults counts the
\* fetches whose outcome differs from the plain one.
FaultyAnswers ==
    { EEException,
      Returns(BadHeaderTable(cursor.li, cursor.year, cursor.month, gas)) }

FetchFaulty ==
    /\ pc = "fetch"
    /\ gas <= Len(Prods)
    /\ faults < MaxFaults
    /\ \E first \in FaultyAnswers :
       \E second \in FaultyAnswers \cup {Returns(ServiceTable)} :
          /\ Fetch(first, second)
          /\ faults' =
                IF get_s5p_time_series(Prods[gas].band, first, second)
                     = get_s5p_time_series(Prods[gas].band,
                                           Returns(ServiceTable), EEException)
                THEN faults
                ELSE faults + 1
    /\ UNCHANGED <<today, file, runs, completed, event, call, ret>>

UnitRows == unit_rows(location_one_month_df, Locs[cursor.li])

\* The end of the unit: its rows are appended unless its frame is empty.
FinishUnit ==
    /\ pc = "fetch"
    /\ gas > Len(Prods)
    /\ file' = IF location_one_month_df # <<>>
               THEN append_rows(file, UnitRows)
               ELSE file
    /\ completed' = completed \cup {Unit(cursor)}
    /\ cursor' = next_month(cursor)
    /\ pc' = "loop"
    /\ gas' = 1
    /\ location_one_month_df' = <<>>
    /\ UNCHANGED <<today, current_time, resume_point, processed_locations,
                   fetched, runs, faults, executed, start_file, event, call,
                   ret>>

\* The location loop is exhausted.
Finish ==
    /\ pc = "loop"
    /\ cursor.li > Len(Locs)
    /\ pc' = "DONE"
    /\ UNCHANGED <<today, file, current_time, resume_point,
                   processed_locations, cursor, gas, location_one_month_df, fetched,
                   runs, faults, executed, completed, start_file, event,
                   call, ret>>

----------------------------------------------------------------------------
(* The environment *)

\* The process is killed; the file keeps what was written.
Die(ev) ==
    /\ pc \in Running
    /\ pc' = "killed"
    /\ ProcReset
    /\ event' = ev
    /\ UNCHANGED <<today, file, runs, faults, completed, call, ret>>

\* The process is killed while it appends a unit: some of the unit's rows,
\* not all, are in the file.
DieInAppend(ev) ==
    /\ pc = "fetch"
    /\ gas > Len(Prods)
    /\ \E k \in 1..(Len(UnitRows) - 1) :
          file' = append_rows(file, SubSeq(UnitRows, 1, k))
    /\ pc' = "killed"
    /\ ProcReset
    /\ event' = ev
    /\ UNCHANGED <<today, runs, faults, completed, call, ret>>

InFlight == IF pc = "fetch" THEN Unit(cursor) ELSE <<0, 0, 0>>
KillEvent ==
    [kind |-> "kill", unit |-> InFlight, at |-> Len(file.rows), before |-> <<>>]

Kill == Die(event)
KillInAppend == DieInAppend(event)

\* The one kill of a controlled run, recorded.
KillOnce == event = NoEvent /\ Die(KillEvent)
KillInAppendOnce == event = NoEvent /\ DieInAppend(KillEvent)

\* After a complete run the file is cut back to its first k rows.
Truncate ==
    /\ pc = "DONE"
    /\ event = NoEvent
    /\ \E k \in 0..(Len(file.rows) - 1) :
          /\ file' = [file EXCEPT !.rows = SubSeq(file.rows, 1, k)]
          /\ event' = [kind |-> "trunc", unit |-> <<0, 0, 0>>, at |-> k,
                       before |-> file.rows]
    /\ pc' = "idle"
    /\ UNCHANGED <<today, current_time, resume_point,
                   processed_locations, cursor, gas, location_one_month_df, fetched,
                   runs, faults, executed, completed, start_file, call, ret>>

\* A calendar month passes.  The script reads the clock once, when it
\* starts, so a month that passes during a run is one that passes right
\* after it.
ClockTick ==
    /\ pc \in Stopped
    /\ today < MaxToday
    /\ today' = today + 1
    /\ UNCHANGED <<file, pc, current_time, resume_point, processed_locations,
                   cursor, gas, location_one_month_df, fetched, runs, faults, executed,
                   completed, start_file, event, call, ret>>

----------------------------------------------------------------------------
(* Specifications *)

\* Runs, kills and resumes from a missing file, with faults and a moving
\* calendar.
Next ==
    \/ Startup
    \/ SkipLocation
    \/ SkipMonth
    \/ BeginUnit
    \/ FetchOK
    \/ FetchFaulty
    \/ FinishUnit
    \/ Finish
    \/ Kill
    \/ KillInAppend
    \/ ClockTick

Spec == Init /\ [][Next]_vars

\* A deterministic service and a fixed today: runs from a missing file with
\* at most one recorded kill or truncation.
NextDet ==
    \/ Startup
    \/ SkipLocation
    \/ SkipMonth
    \/ BeginUnit
    \/ FetchOK
    \/ FinishUnit
    \/ Finish
    \/ KillOnce
    \/ KillInAppendOnce
    \/ Truncate

SpecDet == Init /\ [][NextDet]_vars

\* Runs over whatever file the first start finds: none, an empty one, the
\* bare header, foreign content below and above the size threshold, and a
\* table put together by hand.
HandMadeRows ==
    << [date |-> <<2020, 1, 2>>, vals |-> NoVals, location |-> Locs[Len(Locs)]],
       [date |-> <<2020, 1, 3>>, vals |-> [NoVals EXCEPT ![product_names[1]] = Num(7)],
        location |-> Locs[2]] >>

\* A table whose last row has an empty date field.
UndatedRows ==
    << [date |-> <<2020, 1, 1>>, vals |-> NoVals, location |-> Locs[1]],
       [date |-> NaT, vals |-> NoVals, location |-> Locs[2]] >>

InitialFiles ==
    { NoFile, ZeroLength, HeaderOnly, Garbled(10), Garbled(100),
      [HeaderOnly EXCEPT !.rows = HandMadeRows],
      [HeaderOnly EXCEPT !.rows = UndatedRows] }

InitAnyFile ==
    /\ today = FirstToday
    /\ file \in InitialFiles
    /\ pc = "idle"
    /\ ProcInit
    /\ runs = 0
    /\ faults = 0
    /\ completed = {}
    /\ event = NoEvent
    /\ call = NoCall
    /\ ret = NoRet

\* The service answers every query; the calendar stands still.
NextAnyFile ==
    \/ Startup
    \/ SkipLocation
    \/ SkipMonth
    \/ BeginUnit
    \/ FetchOK
    \/ FinishUnit
    \/ Finish
    \/ Kill
    \/ KillInAppend

SpecAnyFile == InitAnyFile /\ [][NextAnyFile]_vars

----------------------------------------------------------------------------
(* get_s5p_time_series on its own, over small responses *)

\* The rows a response may hold: a dated value, a dated masked value, a row
\* without timestamp, a row whose timestamp is text, and a row cut short.
LogicalRows ==
    { [time |-> Ms(2020, 1, 1, 0), value |-> Num(1), short |-> FALSE],
      [time |-> Ms(2020, 1, 2, 1), value |-> None, short |-> FALSE],
      [time |-> None, value |-> Num(2), short |-> FALSE],
      [time |-> Str, value |-> Num(3), short |-> FALSE],
      [time |-> Ms(2020, 1, 3, 0), value |-> Num(4), short |-> TRUE] }

Layouts == {"region", "swapped", "no_time", "no_band"}

HeaderOf(layout, band) ==
    CASE layout = "region" -> <<"id", "longitude", "latitude", "time", band>>
      [] layout = "swapped" -> <<"id", band, "time">>
      [] layout = "no_time" -> <<"id", "longitude", "latitude", band>>
      [] layout = "no_band" -> <<"id", "longitude", "latitude", "time">>

CellsOf(layout, r) ==
    IF r.short THEN <<Str>>
    ELSE CASE layout = "region" -> <<Str, Num(0), Num(0), r.time, r.value>>
           [] layout = "swapped" -> <<Str, r.value, r.time>>
           [] layout = "no_time" -> <<Str, Num(0), Num(0), r.value>>
           [] layout = "no_band" -> <<Str, Num(0), Num(0), r.time>>

TableOf(layout, band, rows) ==
    <<HeaderOf(layout, band)>> \o [i \in 1..Len(rows) |-> CellsOf(layout, rows[i])]

RowSeqs == UNION {[1..n -> LogicalRows] : n \in 0..MaxRows}

Responses(band) ==
    {EEException, Returns(<<>>)}
        \cup {Returns(TableOf(l, band, rs)) : l \in Layouts, rs \in RowSeqs}

Bands == {Prods[i].band : i \in 1..Len(Prods)}

InitFetch ==
    /\ today = FirstToday
    /\ file = NoFile
    /\ pc = "idle"
    /\ ProcInit
    /\ runs = 0
    /\ faults = 0
    /\ completed = {}
    /\ event = NoEvent
    /\ ret = NoRet
    /\ \E band \in Bands :
       \E first \in Responses(band) :
       \E second \in (IF first.raises THEN Responses(band) ELSE {EEException}) :
          call = [band |-> band, first |-> first, second |-> second,
                  log |-> <<>>]

\* The call, with the queries and waits it made on the way.
CallFetch ==
    /\ ret = NoRet
    /\ ret' = get_s5p_time_series(call.band, call.first, call.second)
    /\ call' = [call EXCEPT !.log = remote_calls(call.band, call.first)]
    /\ UNCHANGED <<today, file, pc, current_time, resume_point,
                   processed_locations, cursor, gas, location_one_month_df,
                   fetched, runs, faults, executed, completed, start_file,
                   event>>

NextFetch == CallFetch

SpecFetch == InitFetch /\ [][NextFetch]_vars

----------------------------------------------------------------------------
(* Vocabulary of the properties *)

UnitOfRow(r) == <<LocIndex(r.location), r.date[1], r.date[2]>>
RowsOfUnit(rows, u) == SelectSeq(rows, LAMBDA r : UnitOfRow(r) = u)
RowSet(rows) == {rows[i] : i \in 1..Len(rows)}

\* The enumeration locations x years x months up to the month of ct.
NumMonths(ct) == MonthIdx(ct.year, ct.month) + 1
AllUnits(ct) ==
    [n \in 1..(Len(Locs) * NumMonths(ct)) |->
        LET li == ((n - 1) \div NumMonths(ct)) + 1
            t == (n - 1) % NumMonths(ct)
        IN  <<li, Clock(t).year, Clock(t).month>>]
UnitsInRange(li, ct) ==
    {<<li, Clock(t).year, Clock(t).month>> : t \in 0..(NumMonths(ct) - 1)}

IsPrefix(a, b) == Len(a) <= Len(b) /\ a = SubSeq(b, 1, Len(a))

\* The rows a unit gives when every query is answered at once.
RECURSIVE PlainFrame(_, _)
PlainFrame(u, n) ==
    IF n = 0 THEN <<>>
    ELSE fold_product(
            PlainFrame(u, n - 1),
            get_s5p_time_series(Prods[n].band,
                                Returns(getRegion(u[1], u[2], u[3], n)),
                                EEException).data,
            Prods[n].gas)
PlainRows(u) == unit_rows(PlainFrame(u, Len(Prods)), Locs[u[1]])

\* The rows of a run that nothing interrupts.
WouldWrite(ct) ==
    UNION {RowSet(PlainRows(AllUnits(ct)[n])) : n \in 1..Len(AllUnits(ct))}

\* The file as the last start found it, read as that start read it.
StartFrame == read_csv(start_file)
StartAbove == start_file.exists /\ getsize(start_file) > SizeThreshold
StartLast == StartFrame.df[Len(StartFrame.df)]
StartReadable ==
    /\ StartAbove
    /\ ~StartFrame.raises
    /\ StartFrame.df # <<>>
    /\ StartLast.date # NaT
StartUnparseable ==
    /\ StartAbove
    /\ \/ StartFrame.raises
       \/ StartFrame.df # <<>> /\ StartLast.date = NaT

\* The start has just finished: nothing of the loop has run.
AtLoopStart == pc = "loop" /\ cursor = FirstCursor /\ executed = <<>>

\* The step that ends a unit, and the rows a step adds at the end of the file.
UnitEnds == pc = "fetch" /\ pc' = "loop"
Appended == SubSeq(file'.rows, Len(file.rows) + 1, Len(file'.rows))

\* The dates the fetch of the p-th product of the unit returned, and the
\* value of the first observation it returned for a date.
FetchedDates(p) == {fetched[p][k].date : k \in 1..Len(fetched[p])}
AllFetchedDates == UNION {FetchedDates(p) : p \in 1..Len(fetched)}
FirstOn(p, d) ==
    LET k == CHOOSE n \in 1..Len(fetched[p]) :
                /\ fetched[p][n].date = d
                /\ \A j \in 1..(n - 1) : fetched[p][j].date # d
    IN  fetched[p][k].value

----------------------------------------------------------------------------
(* Properties *)

C1_TruncatedUnits ==
    {UnitOfRow(event.before[i]) : i \in (event.at + 1)..Len(event.before)}
\* C1 (as stated): after a complete run, a truncation of the file to an
\* earlier row boundary and a second complete run, every unit that had rows
\* at or after the truncation point has the same rows as before, and the
\* file holds the same units, each in one block.
C1_IdempotentResume ==
    (pc = "DONE" /\ event.kind = "trunc") =>
        /\ \A u \in C1_TruncatedUnits :
              RowsOfUnit(file.rows, u) = RowsOfUnit(event.before, u)
        /\ {UnitOfRow(r) : r \in RowSet(file.rows)}
              = {UnitOfRow(r) : r \in RowSet(event.before)}
        /\ \A i, j \in 1..Len(file.rows) :
              (i < j /\ UnitOfRow(file.rows[i]) = UnitOfRow(file.rows[j])) =>
                  \A k \in i..j : UnitOfRow(file.rows[k]) = UnitOfRow(file.rows[i])

\* C2: after one kill and a resume that reaches DONE, every row of the
\* uninterrupted run that the file lacks belongs to the unit that was in
\* flight at the kill.
C2_BoundedLoss ==
    (pc = "DONE" /\ event.kind = "kill") =>
        \A r \in WouldWrite(current_time) :
            r \in RowSet(file.rows) \/ UnitOfRow(r) = event.unit
C2_Witness ==
    /\ pc = "DONE"
    /\ event.kind = "kill"
    /\ event.unit # <<0, 0, 0>>
    /\ \E r \in WouldWrite(current_time) : r \notin RowSet(file.rows)
    /\ Len(file.rows) > event.at + 1

NoDuplicateRows(rows) ==
    \A i, j \in 1..Len(rows) :
        (rows[i].location = rows[j].location /\ rows[i].date = rows[j].date)
            => i = j
\* C3: from a missing file, whatever the runs, kills and resumes, no
\* (location, date) pair is in two rows of the file and no step makes the
\* file shorter.
C3_NoDuplication ==
    [][NoDuplicateRows(file'.rows) /\ Len(file'.rows) >= Len(file.rows)]_vars
C3_Witness ==
    /\ runs >= 2
    /\ pc = "DONE"
    /\ resume_point # NoResume
    /\ Len(start_file.rows) > 0
    /\ Len(file.rows) > Len(start_file.rows)

RowLE(a, b) ==
    \/ LocIndex(a.location) < LocIndex(b.location)
    \/ a.location = b.location /\ ~DateLT(b.date, a.date)
RowsOrdered(rows) == \A i \in 1..(Len(rows) - 1) : RowLE(rows[i], rows[i + 1])
\* C4 (as stated): at every unit boundary the rows are ordered by location
\* in catalog order, then by date, and the last row belongs to the unit the
\* loop completed last.
C4_CheckpointOrder ==
    pc = "loop" =>
        /\ RowsOrdered(file.rows)
        /\ executed # <<>> =>
              /\ file.rows # <<>>
              /\ UnitOfRow(file.rows[Len(file.rows)]) = executed[Len(executed)]

\* C5: when the start finds a readable file above the threshold, the
\* checkpoint is the location, year and month of its last row, and the run
\* neither begins that unit nor appends a row of it.
C5_CheckpointInference ==
    (pc \in Running \cup {"DONE"} /\ StartReadable) =>
        /\ resume_point = [location |-> StartLast.location,
                           year |-> StartLast.date[1],
                           month |-> StartLast.date[2]]
        /\ \A i \in 1..Len(executed) : executed[i] # UnitOfRow(StartLast)
        /\ \A i \in (Len(start_file.rows) + 1)..Len(file.rows) :
              UnitOfRow(file.rows[i]) # UnitOfRow(StartLast)
C5_Witness ==
    /\ pc = "DONE"
    /\ StartReadable
    /\ \E i \in 1..Len(executed) : executed[i][1] = UnitOfRow(StartLast)[1]
    /\ Len(file.rows) > Len(start_file.rows)

\* C6 (as stated): when the first query raises and the retry answers, the
\* call returns what that answer parses to; when both raise, it returns an
\* empty list and raises nothing.
C6_RetryThenDegrade ==
    (ret # NoRet /\ call.first.raises) =>
        /\ ~ret.raised
        /\ ret.data = IF call.second.raises
                      THEN <<>>
                      ELSE first_attempt(call.band, call.second.table).data

C7_Parsed == IF call.first.raises THEN call.second ELSE call.first
C7_LacksColumn ==
    /\ ~C7_Parsed.raises
    /\ Len(C7_Parsed.table) >= 2
    /\ \/ index(C7_Parsed.table[1], "time") = 0
       \/ index(C7_Parsed.table[1], call.band) = 0
\* C7 (as stated): a response whose header lacks the timestamp or the band
\* column, to the first query or to the retry, gives an empty list and no
\* exception.
C7_MalformedNonFatal ==
    (ret # NoRet /\ C7_LacksColumn) => (~ret.raised /\ ret.data = <<>>)

\* C8 (as stated): when the start finds a file above the threshold that it cannot read
\* as a checkpoint, either the deletion fails and the run stops before the
\* loop, or the file is made anew with the header alone, there is no
\* checkpoint and no location to skip, and the run goes through every unit
\* from the first.
C8_InvalidFileFromScratch ==
    (pc \in Running \cup {"DONE", "aborted"} /\ StartUnparseable) =>
        IF pc = "aborted"
        THEN executed = <<>> /\ file = start_file
        ELSE /\ resume_point = NoResume
             /\ processed_locations = {}
             /\ AtLoopStart => file = HeaderOnly
             /\ IsPrefix(executed, AllUnits(current_time))
             /\ pc = "DONE" => executed = AllUnits(current_time)
\* C9 (as stated): when the start finds no file, or one at or below the
\* threshold, and does not abort, the file is the header row alone before
\* the first unit and the run starts from the first unit.
C9_HeaderWritten ==
    (AtLoopStart /\ ~StartAbove) =>
        /\ file = HeaderOnly
        /\ resume_point = NoResume
        /\ processed_locations = {}

\* C10 (as stated): every location the start marks as fully processed has had
\* all its units through the current month carried through, so a run that
\* reaches DONE leaves no unit in range unexecuted.
C10_ProcessedComplete ==
    (pc \in Running \cup {"DONE"}) =>
        \A li \in 1..Len(Locs) :
            (Locs[li] \in processed_locations \/ pc = "DONE") =>
                UnitsInRange(li, current_time) \subseteq completed

C11_NullOn(r, p) == r.vals[Prods[p].gas] = None
\* C11 (as stated): the dates of the rows appended for a unit are the union
\* of the dates the fetches of its products returned, and a product's column
\* is null on exactly the dates for which its fetch returned no observation.
C11_OuterJoinCompleteness ==
    [][UnitEnds =>
          /\ DatesOf(Appended) = AllFetchedDates
          /\ \A i \in 1..Len(Appended) : \A p \in 1..Len(Prods) :
                C11_NullOn(Appended[i], p)
                    <=> Appended[i].date \notin FetchedDates(p)]_vars
\* C11 (amended): the dates of the rows appended for a unit are the union of
\* the dates the fetches of its products returned, one row per date, and a
\* product's column is null on exactly the dates for which its fetch
\* returned no observation or returned first one whose value is null.
C11_OuterJoinCompletenessAmended ==
    [][UnitEnds =>
          /\ DatesOf(Appended) = AllFetchedDates
          /\ Len(Appended) = Cardinality(AllFetchedDates)
          /\ \A i \in 1..Len(Appended) : \A p \in 1..Len(Prods) :
                C11_NullOn(Appended[i], p)
                    <=> \/ Appended[i].date \notin FetchedDates(p)
                        \/ FirstOn(p, Appended[i].date) = None]_vars
C11_Witness ==
    /\ pc = "loop"
    /\ Len(fetched) = Len(Prods)
    /\ \E p, q \in 1..Len(Prods) :
          /\ FetchedDates(p) \ FetchedDates(q) # {}
          /\ FetchedDates(q) \ FetchedDates(p) # {}
    /\ Len(RowsOfUnit(file.rows, executed[Len(executed)]))
          = Cardinality(AllFetchedDates)

\* The observations the service returns for the p-th product of a unit that
\* have a timestamp and a null value; the first of them on their date.
C12_NullObservations(u, p) ==
    LET obs == Observations(u[1], u[2], u[3], p)
    IN  {k \in 1..Len(obs) : obs[k][1].kind = "ms" /\ obs[k][2] = None}
C12_FirstOfDate(u, p, k) ==
    LET obs == Observations(u[1], u[2], u[3], p)
    IN  \A j \in 1..(k - 1) :
            obs[j][1].kind = "ms" => obs[j][1].date # obs[k][1].date
C12_RowWithNull(rows, u, p, k) ==
    \E i \in 1..Len(rows) :
        /\ rows[i].date = Observations(u[1], u[2], u[3], p)[k][1].date
        /\ rows[i].vals[Prods[p].gas] = None
\* C12 (as stated): when the service answers every query, every observation
\* it returns with a timestamp and a null value has a row of its date among
\* the rows appended for the unit, with its product's column null.
C12_NullPreservation ==
    [][UnitEnds =>
          \A p \in 1..Len(Prods) : \A k \in C12_NullObservations(Unit(cursor), p) :
              C12_RowWithNull(Appended, Unit(cursor), p, k)]_vars
\* C12 (amended): when the service answers every query, every observation it
\* returns with a timestamp and a null value, and before which the same
\* response has no observation of the same date, has a row of its date among
\* the rows appended for the unit, with its product's column null.
C12_NullPreservationAmended ==
    [][UnitEnds =>
          \A p \in 1..Len(Prods) : \A k \in C12_NullObservations(Unit(cursor), p) :
              C12_FirstOfDate(Unit(cursor), p, k)
                  => C12_RowWithNull(Appended, Unit(cursor), p, k)]_vars
C12_Witness ==
    /\ pc = "loop"
    /\ Len(fetched) = Len(Prods)
    /\ \E i \in 1..Len(file.rows) :
          /\ UnitOfRow(file.rows[i]) = executed[Len(executed)]
          /\ file.rows[i].vals = NoVals
          /\ \E p \in 1..Len(Prods) :
                \E k \in C12_NullObservations(executed[Len(executed)], p) :
                    Observations(executed[Len(executed)][1],
                                 executed[Len(executed)][2],
                                 executed[Len(executed)][3], p)[k][1].date
                        = file.rows[i].date

C13_AllEmpty ==
    /\ Len(fetched) = Len(Prods)
    /\ \A p \in 1..Len(fetched) : fetched[p] = <<>>
\* C13: once every fetch of a unit has returned an empty sequence, no step
\* of that unit changes the file: nothing is appended when the unit ends.
C13_EmptyUnitSuppression ==
    [][(pc = "fetch" /\ C13_AllEmpty) => file' = file]_vars
C13_Witness ==
    /\ pc = "loop"
    /\ C13_AllEmpty
    /\ file.rows # <<>>
    /\ UnitOfRow(file.rows[Len(file.rows)]) # executed[Len(executed)]

\* A unit the claim removes from the enumeration: its location was marked
\* fully processed, or it is the checkpoint's location and the unit is at or
\* before the checkpoint's year and month.
C14_Removed(u) ==
    \/ Locs[u[1]] \in processed_locations
    \/ /\ resume_point # NoResume
       /\ Locs[u[1]] = resume_point.location
       /\ \/ u[2] < resume_point.year
          \/ u[2] = resume_point.year /\ u[3] <= resume_point.month
C14_Schedule == SelectSeq(AllUnits(current_time), LAMBDA u : ~C14_Removed(u))
\* C14: the units a run has begun are, in order, the first units of the
\* enumeration locations x years x months up to the current month with the
\* removed units left out, and a run that reaches DONE has begun all of
\* them: each once, in increasing enumeration order.
C14_UnitSchedule ==
    /\ pc \in Running \cup {"DONE"} => IsPrefix(executed, C14_Schedule)
    /\ pc = "DONE" => executed = C14_Schedule
C14_Witness ==
    /\ pc = "DONE"
    /\ resume_point # NoResume
    /\ processed_locations # {}
    /\ Len(executed) >= 2
    /\ \E n \in 1..Len(AllUnits(current_time)) :
          /\ AllUnits(current_time)[n][1] = LocIndex(resume_point.location)
          /\ C14_Removed(AllUnits(current_time)[n])
    /\ current_time.month < MonthsPerYear

C15_Queries == SelectSeq(call.log, LAMBDA e : e.op = "getRegion")
C15_NoData == ~call.first.raises /\ Len(call.first.table) < 2
\* C15: a call issues one query, or two when the first raised: then the wait
\* of the back-off stands between them and the second query is the first one
\* again; a first response that is empty or has the header alone gives an
\* empty list after one query; there is never a third query.
C15_ExactlyOneRetry ==
    ret # NoRet =>
        /\ Len(C15_Queries) = ret.queries
        /\ ret.queries \in {1, 2}
        /\ ret.queries = 2 <=> call.first.raises
        /\ ret.queries = 2 =>
              /\ call.log = <<call.log[1], sleep(5), call.log[1]>>
              /\ call.log[1].op = "getRegion"
        /\ C15_NoData =>
              (ret.queries = 1 /\ ~ret.raised /\ ret.data = <<>>)
C15_Witness ==
    /\ ret # NoRet
    /\ call.first.raises
    /\ ~call.second.raises
    /\ ret.queries = 2
    /\ ret.data # <<>>

\* C16: a step taken while the main loop runs leaves what the file holds in
\* place (the header row, foreign content, the rows and their order) and
\* adds rows at the end only when it ends a unit or is a kill in the course
\* of the append: rows of the unit just merged, in its order.
C16_AppendOnly ==
    [][(pc \in Running) =>
          /\ [file' EXCEPT !.rows = file.rows] = file
          /\ IsPrefix(file.rows, file'.rows)
          /\ Appended # <<>> =>
                /\ pc = "fetch"
                /\ gas > Len(Prods)
                /\ IsPrefix(Appended, UnitRows)
                /\ UnitEnds => Appended = UnitRows]_vars
C16_Witness ==
    /\ pc = "DONE"
    /\ start_file.header
    /\ Len(start_file.rows) > 0
    /\ Len(file.rows) > Len(start_file.rows) + 1
    /\ IsPrefix(start_file.rows, file.rows)

\* The response a call parses, its columns, and its rows that have a
\* timestamp and reach both columns.
C17_Response == IF call.first.raises THEN call.second ELSE call.first
C17_Time == index(C17_Response.table[1], "time")
C17_Value == index(C17_Response.table[1], call.band)
C17_ValidHeader ==
    /\ ~C17_Response.raises
    /\ Len(C17_Response.table) >= 2
    /\ C17_Time # 0
    /\ C17_Value # 0
C17_GoodRow(row) ==
    /\ Len(row) >= C17_Time
    /\ Len(row) >= C17_Value
    /\ row[C17_Time].kind = "ms"
C17_GoodRows == SelectSeq(Tail(C17_Response.table), C17_GoodRow)
\* C17: when the response a call parses, the first or the retried one, has
\* both columns in its header, the call raises nothing and returns one
\* observation for every row that has a timestamp and is not cut short, in
\* the order of the response, whatever the other rows are.
C17_RowGranular ==
    (ret # NoRet /\ C17_ValidHeader) =>
        /\ ~ret.raised
        /\ Len(ret.data) = Len(C17_GoodRows)
        /\ \A i \in 1..Len(C17_GoodRows) :
              /\ ret.data[i].date = C17_GoodRows[i][C17_Time].date
              /\ ret.data[i].value = C17_GoodRows[i][C17_Value]
C17_Witness ==
    /\ ret # NoRet
    /\ call.first.raises
    /\ C17_ValidHeader
    /\ Len(C17_Response.table) = 3
    /\ ~C17_GoodRow(C17_Response.table[2])
    /\ C17_Response.table[2] # <<Str>>
    /\ C17_Response.table[2][C17_Time] # None
    /\ C17_GoodRow(C17_Response.table[3])
    /\ Len(ret.data) = 1

====
